---- MODULE Spec2Model ----
(***************************************************************************)
(* A model of the Jira adapter of mcp-atlassian.                           *)
(*                                                                         *)
(* RankMixin.rank_issues (src/src/mcp_atlassian/jira/rank.py) is one       *)
(* synchronous call: it validates its arguments, builds the payload,       *)
(* POSTs it to the Agile rank endpoint and maps the response (or the       *)
(* exception) to a result dictionary or a ValueError.  The call is split   *)
(* at its one blocking point, the POST: RankIssues is the call up to and   *)
(* including the POST, PostReturns is everything after it.  The response   *)
(* is the environment's choice.                                            *)
(*                                                                         *)
(* Python values are tagged records, so that a None, a str, a list and a   *)
(* dict stay distinct and `is None` differs from truthiness, as in Python. *)
(***************************************************************************)
EXTENDS Integers, Sequences, FiniteSets, TLC

VARIABLES pc, args, requests, response, outcome, config

vars == <<pc, args, requests, response, outcome, config>>

(***************************************************************************)
(* Bounds of the model.                                                    *)
(***************************************************************************)
\* longest `issues` argument
MaxIssues == 2
\* longest successfulIssues / failedIssues list of a 207 body
MaxListed == 2

(***************************************************************************)
(* Python values.                                                          *)
(***************************************************************************)
PyNone == [kind |-> "None"]
PyBool(b) == [kind |-> "bool", b |-> b]
PyInt(n) == [kind |-> "int", n |-> n]
PyStr(s) == [kind |-> "str", s |-> s]
PyList(items) == [kind |-> "list", items |-> items]
PyDict(fields) == [kind |-> "dict", fields |-> fields]

EmptyDict == PyDict(<<>>)

\* bool(v)
Truthy(v) ==
  CASE v.kind = "None" -> FALSE
    [] v.kind = "bool" -> v.b
    [] v.kind = "int"  -> v.n /= 0
    [] v.kind = "str"  -> v.s /= ""
    [] v.kind = "list" -> v.items /= <<>>
    [] v.kind = "dict" -> DOMAIN v.fields /= {}

\* str(v) as an f-string renders it, for the values that are formatted here
Format(v) ==
  CASE v.kind = "None" -> "None"
    [] v.kind = "str"  -> v.s
    [] v.kind = "int"  -> ToString(v.n)

\* len(v) raises TypeError unless v is sized
HasLen(v) == v.kind \in {"str", "list", "dict"}

PyLen(v) ==
  CASE v.kind = "str"  -> Len(v.s)
    [] v.kind = "list" -> Len(v.items)
    [] v.kind = "dict" -> Cardinality(DOMAIN v.fields)

\* type(v).__name__
TypeName(v) == IF v.kind = "None" THEN "NoneType" ELSE v.kind

\* str(e) of the TypeError of len(v) for a v without a length
LenError(v) == "object of type '" \o TypeName(v) \o "' has no len()"

\* str(e) of the TypeError of v["key"] = x for a v that is not a dict
ItemAssignmentError(v) ==
  IF v.kind = "list" THEN "list indices must be integers or slices, not str"
  ELSE "'" \o TypeName(v) \o "' object does not support item assignment"

\* d[k] = v
DictSet(d, k, v) == PyDict((k :> v) @@ d.fields)

\* d.get(k, default)
DictGet(d, k, default) == IF k \in DOMAIN d.fields THEN d.fields[k] ELSE default

Keys(d) == DOMAIN d.fields

RECURSIVE JoinFrom(_, _, _)
JoinFrom(sep, items, i) ==
  IF i > Len(items) THEN ""
  ELSE IF i = Len(items) THEN items[i].s
  ELSE items[i].s \o sep \o JoinFrom(sep, items, i + 1)

\* sep.join(list) for a list of str
Join(sep, list) == JoinFrom(sep, list.items, 1)

SeqsUpTo(S, n) == UNION {[1..k -> S] : k \in 0..n}

(***************************************************************************)
(* Outcomes of a call, and exceptions in flight inside its try block.      *)
(***************************************************************************)
NoOutcome == [kind |-> "none"]
Return(v) == [kind |-> "return", value |-> v]
Raise(type, message) == [kind |-> "raise", type |-> type, message |-> message]
Thrown(type, text, status) ==
  [kind |-> "thrown", type |-> type, text |-> text, status_code |-> status]

(***************************************************************************)
(* The environment: the Jira server and the HTTP transport.                *)
(***************************************************************************)
JiraUrl == "https://jira.example.com"

RankUrl == JiraUrl \o "/rest/agile/1.0/issue/rank"

StatusCodes == {101, 200, 201, 204, 207, 304, 400, 401, 403, 404, 500}

\* a body that response.json() cannot parse
Unparsable == [kind |-> "unparsable"]

FailedEntry ==
  PyDict("issueKey" :> PyStr("B") @@ "errors" :> PyList(<<PyStr("no permission")>>))

SuccessfulOptions ==
  {PyList(s) : s \in SeqsUpTo({PyStr("A")}, MaxListed)} \cup {PyNone, PyInt(1)}

FailedOptions ==
  {PyList(s) : s \in SeqsUpTo({FailedEntry}, MaxListed)} \cup {PyNone, PyInt(1)}

\* JSON objects with any subset of the two keys of a multi-status body
MultiStatusObjects ==
  {EmptyDict}
  \cup {PyDict("successfulIssues" :> s) : s \in SuccessfulOptions}
  \cup {PyDict("failedIssues" :> f) : f \in FailedOptions}
  \cup {PyDict("successfulIssues" :> s @@ "failedIssues" :> f) :
          s \in SuccessfulOptions, f \in FailedOptions}

\* JSON objects that already carry keys the adapter writes, or foreign keys
OtherObjects ==
  { PyDict("success" :> PyBool(TRUE) @@ "message" :> PyStr("ok")),
    PyDict("rank_position" :> PyStr("before Z") @@ "successfulIssues" :> PyList(<<PyStr("A")>>)),
    PyDict("total" :> PyInt(2) @@ "failedIssues" :> PyList(<<FailedEntry>>)) }

\* JSON values that are not objects
NonObjects == {PyList(<<>>), PyList(<<PyStr("A")>>), PyNone, PyStr("ok"), PyInt(0)}

JsonValues == MultiStatusObjects \cup OtherObjects \cup NonObjects

Bodies == JsonValues \cup {Unparsable}

\* what session.post gives back: a response, or an exception of the transport
NoResponse == [kind |-> "none"]

NetworkOutcomes ==
  {[kind |-> "response", status_code |-> c, body |-> b] : c \in StatusCodes, b \in Bodies}
  \cup {[kind |-> "exception", text |-> "Unexpected error"]}

\* response.raise_for_status(): HTTPError for a 4xx or 5xx status
RaisesForStatus(status) == 400 <= status /\ status < 600

\* str(e) of that HTTPError (the server's reason phrase is left out)
HTTPErrorText(status) ==
  ToString(status)
    \o (IF status < 500 THEN " Client Error" ELSE " Server Error")
    \o " for url: " \o RankUrl

\* response.json() raises ValueError on a body that is not JSON
JsonRaises(body) == body = Unparsable

(***************************************************************************)
(* rank_issues.                                                            *)
(***************************************************************************)
IssueKeys == {"A", "B"}

IssueLists == {PyList(s) : s \in SeqsUpTo({PyStr(k) : k \in IssueKeys}, MaxIssues)}

\* a str | None argument: None, the empty string, or a key
BeforeValues == {PyNone, PyStr(""), PyStr("X")}
AfterValues == {PyNone, PyStr(""), PyStr("Y")}
CustomFieldValues == {PyNone, PyStr(""), PyStr("customfield_10019")}

NoArgs == [kind |-> "none"]

Args(issues, rank_before, rank_after, rank_custom_field_id) ==
  [kind |-> "rank_issues", issues |-> issues, rank_before |-> rank_before,
   rank_after |-> rank_after, rank_custom_field_id |-> rank_custom_field_id]

\* mutant: the check tests `issues is None` instead of `not issues`
IssuesMissing_NoneOnly(issues) == issues = PyNone

\* `if not issues`
IssuesMissing(issues) == ~Truthy(issues)

\* mutant: the check forgets the case of both anchors given
AnchorsInvalid_NeitherOnly(rank_before, rank_after) ==
  rank_before = PyNone /\ rank_after = PyNone

\* the second precondition: both anchors None, or neither None
AnchorsInvalid(rank_before, rank_after) ==
  \/ rank_before = PyNone /\ rank_after = PyNone
  \/ rank_before /= PyNone /\ rank_after /= PyNone

WithAnchor(payload, rank_before, rank_after) ==
  IF Truthy(rank_before) THEN DictSet(payload, "rankBeforeIssue", rank_before)
  ELSE IF Truthy(rank_after) THEN DictSet(payload, "rankAfterIssue", rank_after)
  ELSE payload

WithCustomField(payload, rank_custom_field_id) ==
  IF Truthy(rank_custom_field_id)
  THEN DictSet(payload, "rankCustomFieldId", rank_custom_field_id)
  ELSE payload

\* the JSON body of the POST
Payload(a) ==
  WithCustomField(
    WithAnchor(PyDict("issues" :> a.issues), a.rank_before, a.rank_after),
    a.rank_custom_field_id)

\* f"before {rank_before}" if rank_before else f"after {rank_after}"
RankPosition(rank_before, rank_after) ==
  IF Truthy(rank_before) THEN "before " \o Format(rank_before)
  ELSE "after " \o Format(rank_after)

SuccessMessage(issues) == "Successfully ranked issues: " \o Join(", ", issues)

\* the result for 204 No Content
FullSuccess(a) ==
  Return(PyDict(
    "success" :> PyBool(TRUE)
    @@ "message" :> PyStr(SuccessMessage(a.issues))
    @@ "issues" :> a.issues
    @@ "rank_position" :> PyStr(RankPosition(a.rank_before, a.rank_after))))

PartialMessage(result) ==
  "Partially successful: "
    \o ToString(PyLen(DictGet(result, "successfulIssues", PyList(<<>>))))
    \o " issues ranked, "
    \o ToString(PyLen(DictGet(result, "failedIssues", PyList(<<>>))))
    \o " issues failed"

\* the four keys written into a parsed 207 body
Annotated(a, result) ==
  DictSet(
    DictSet(
      DictSet(
        DictSet(result, "success", PyBool(FALSE)),
        "partial_success", PyBool(TRUE)),
      "message", PyStr(PartialMessage(result))),
    "rank_position", PyStr(RankPosition(a.rank_before, a.rank_after)))

MultiStatusFallback ==
  Return(PyDict(
    "success" :> PyBool(FALSE)
    @@ "message" :> PyStr("Received 207 Multi-Status but could not parse JSON response")
    @@ "status_code" :> PyInt(207)))

\* mutant: the 207 branch without its inner except clause
MultiStatus_Uncaught(a, body) ==
  IF JsonRaises(body) THEN Thrown("ValueError", "Invalid JSON", 207)
  ELSE IF body.kind /= "dict"
    THEN Thrown("TypeError", ItemAssignmentError(body), 207)
  ELSE IF ~HasLen(DictGet(body, "successfulIssues", PyList(<<>>)))
    THEN Thrown("TypeError", LenError(DictGet(body, "successfulIssues", PyList(<<>>))), 207)
  ELSE IF ~HasLen(DictGet(body, "failedIssues", PyList(<<>>)))
    THEN Thrown("TypeError", LenError(DictGet(body, "failedIssues", PyList(<<>>))), 207)
  ELSE Return(Annotated(a, body))

\* the 207 branch: only a ValueError (of response.json()) is caught inside it
MultiStatus(a, body) ==
  IF JsonRaises(body) THEN MultiStatusFallback
  ELSE IF body.kind /= "dict"
    THEN Thrown("TypeError", ItemAssignmentError(body), 207)
  ELSE IF ~HasLen(DictGet(body, "successfulIssues", PyList(<<>>)))
    THEN Thrown("TypeError", LenError(DictGet(body, "successfulIssues", PyList(<<>>))), 207)
  ELSE IF ~HasLen(DictGet(body, "failedIssues", PyList(<<>>)))
    THEN Thrown("TypeError", LenError(DictGet(body, "failedIssues", PyList(<<>>))), 207)
  ELSE Return(Annotated(a, body))

\* mutant: the fallback reports the 200 of the docstring, not the status
OtherStatus_Fixed200(a, status, body) ==
  IF JsonRaises(body)
  THEN Return(PyDict(
         "success" :> PyBool(TRUE)
         @@ "message" :> PyStr(SuccessMessage(a.issues))
         @@ "status_code" :> PyInt(200)))
  ELSE Return(body)

\* every status that is not an error, 204 or 207
OtherStatus(a, status, body) ==
  IF JsonRaises(body)
  THEN Return(PyDict(
         "success" :> PyBool(TRUE)
         @@ "message" :> PyStr(SuccessMessage(a.issues))
         @@ "status_code" :> PyInt(status)))
  ELSE Return(body)

\* the try block after the POST
TryBody(a, net) ==
  IF net.kind = "exception" THEN Thrown("Exception", net.text, 0)
  ELSE IF RaisesForStatus(net.status_code)
    THEN Thrown("HTTPError", HTTPErrorText(net.status_code), net.status_code)
  ELSE IF net.status_code = 204 THEN FullSuccess(a)
  ELSE IF net.status_code = 207 THEN MultiStatus(a, net.body)
  ELSE OtherStatus(a, net.status_code, net.body)

\* mutant: the 403 and 404 suffixes swapped
ErrorSuffix_Swapped(status) ==
  IF status = 400 THEN " - This may be due to invalid issue keys or rank position"
  ELSE IF status = 404 THEN " - You may not have permission to rank issues"
  ELSE IF status = 403
    THEN " - The rank endpoint may not be available in your Jira instance"
  ELSE ""

\* the suffix of the message of an HTTPError
ErrorSuffix(status) ==
  IF status = 400 THEN " - This may be due to invalid issue keys or rank position"
  ELSE IF status = 403 THEN " - You may not have permission to rank issues"
  ELSE IF status = 404
    THEN " - The rank endpoint may not be available in your Jira instance"
  ELSE ""

\* the two except clauses
ExceptClauses(t) ==
  IF t.kind /= "thrown" THEN t
  ELSE IF t.type = "HTTPError"
    THEN Raise("ValueError",
               "Failed to rank issues: " \o t.text \o ErrorSuffix(t.status_code))
  ELSE Raise("ValueError", "Failed to rank issues: " \o t.text)

(***************************************************************************)
(* The form model (models/jira/forms.py).  The three classes are pydantic  *)
(* models: constructing one validates every field against its declared     *)
(* type and raises ValidationError, a ValueError, when a value does not    *)
(* fit.  A datetime field parses an ISO 8601 string.                       *)
(***************************************************************************)
\* longest list of raw fields of a legacy payload
MaxFields == 2

\* a key that the payload does not have
Absent == [kind |-> "absent"]

\* the dict with the keys of the record c whose choice is not Absent
Obj(c) == PyDict([k \in {x \in DOMAIN c : c[x] /= Absent} |-> c[k]])

\* d.get(k)
DictGetOrNone(d, k) == DictGet(d, k, PyNone)

PyDatetime(iso) == [kind |-> "datetime", iso |-> iso]

\* the shape of an ISO 8601 timestamp, as far as the model looks: YYYY-MM-DD...
IsIsoTimestamp(s) ==
  Len(s) >= 10 /\ SubSeq(s, 5, 5) = "-" /\ SubSeq(s, 8, 8) = "-"

\* field types of the three models
ValidStr(v) == v.kind = "str"
ValidOptStr(v) == v.kind \in {"str", "None"}
ValidBool(v) == v.kind = "bool"
ValidOptBool(v) == v.kind \in {"bool", "None"}
ValidOptDict(v) == v.kind \in {"dict", "None"}
ValidOptDatetime(v) == v.kind = "None" \/ (v.kind = "str" /\ IsIsoTimestamp(v.s))

\* the value a datetime | None field holds after validation
ToDatetime(v) == IF v.kind = "str" THEN PyDatetime(v.s) ELSE v

ValidationError(model) ==
  Thrown("ValidationError", "validation error for " \o model, 0)

\* v.get(...) on a v that is not a dict
NoGetError(v) ==
  Thrown("AttributeError", "'" \o TypeName(v) \o "' object has no attribute 'get'", 0)

\* ProFormaFormState(status=..., version=..., submitted_at=..., submitted_by=...)
ProFormaFormState(status, version, submitted_at, submitted_by) ==
  IF /\ ValidStr(status) /\ ValidOptStr(version)
     /\ ValidOptDatetime(submitted_at) /\ ValidOptStr(submitted_by)
  THEN [kind |-> "ProFormaFormState", status |-> status, version |-> version,
        submitted_at |-> ToDatetime(submitted_at), submitted_by |-> submitted_by]
  ELSE ValidationError("ProFormaFormState")

\* ProFormaFormState.from_api_response, had it read data["status"] without a default
StateFromApiResponse_Strict(data) ==
  IF data.kind /= "dict" THEN NoGetError(data)
  ELSE IF "status" \notin Keys(data) THEN Thrown("KeyError", "'status'", 0)
  ELSE ProFormaFormState(data.fields["status"],
                         DictGetOrNone(data, "version"),
                         DictGetOrNone(data, "submittedAt"),
                         DictGetOrNone(data, "submittedBy"))

\* ProFormaFormState.from_api_response
StateFromApiResponse(data) ==
  IF data.kind /= "dict" THEN NoGetError(data)
  ELSE ProFormaFormState(DictGet(data, "status", PyStr("o")),
                         DictGetOrNone(data, "version"),
                         DictGetOrNone(data, "submittedAt"),
                         DictGetOrNone(data, "submittedBy"))

\* ProFormaFormField(id=..., name=..., type=..., value=..., required=..., read_only=...)
ProFormaFormField(id, name, type, value, required, read_only) ==
  IF /\ ValidStr(id) /\ ValidStr(name) /\ ValidStr(type)
     /\ ValidBool(required) /\ ValidBool(read_only)
  THEN [kind |-> "ProFormaFormField", id |-> id, name |-> name, type |-> type,
        value |-> value, required |-> required, read_only |-> read_only]
  ELSE ValidationError("ProFormaFormField")

\* ProFormaFormField.from_api_response
FieldFromApiResponse(data) ==
  IF data.kind /= "dict" THEN NoGetError(data)
  ELSE ProFormaFormField(DictGet(data, "id", PyStr("")),
                         DictGet(data, "name", PyStr("")),
                         DictGet(data, "type", PyStr("text")),
                         DictGetOrNone(data, "value"),
                         DictGet(data, "required", PyBool(FALSE)),
                         DictGet(data, "readOnly", PyBool(FALSE)))

\* the list of fields, had it been built back to front
FieldsFromApiResponse_Reversed(fields_data) ==
  IF fields_data.kind /= "list"
  THEN Thrown("TypeError", "'" \o TypeName(fields_data) \o "' object is not iterable", 0)
  ELSE LET n == Len(fields_data.items)
           made == [i \in 1..n |-> FieldFromApiResponse(fields_data.items[n + 1 - i])]
           bad == {i \in 1..n : made[i].kind = "thrown"}
       IN IF bad = {} THEN PyList(made)
          ELSE made[CHOOSE i \in bad : \A j \in bad : i <= j]

\* [ProFormaFormField.from_api_response(field) for field in fields_data]
FieldsFromApiResponse(fields_data) ==
  IF fields_data.kind /= "list"
  THEN Thrown("TypeError", "'" \o TypeName(fields_data) \o "' object is not iterable", 0)
  ELSE LET made == [i \in 1..Len(fields_data.items) |->
                      FieldFromApiResponse(fields_data.items[i])]
           bad == {i \in 1..Len(made) : made[i].kind = "thrown"}
       IN IF bad = {} THEN PyList(made)
          ELSE made[CHOOSE i \in bad : \A j \in bad : i <= j]

\* ProFormaForm(id=..., form_id=..., ..., design=...): state and fields are
\* already models
ProFormaForm(id, form_id, name, description, state, fields, issue_key, updated, internal, submitted, lock, design) ==
  IF /\ ValidStr(id) /\ ValidStr(form_id) /\ ValidOptStr(name)
     /\ ValidOptStr(description) /\ ValidOptStr(issue_key)
     /\ ValidOptDatetime(updated) /\ ValidOptBool(internal)
     /\ ValidOptBool(submitted) /\ ValidOptBool(lock) /\ ValidOptDict(design)
  THEN [kind |-> "ProFormaForm", id |-> id, form_id |-> form_id, name |-> name,
        description |-> description, state |-> state, fields |-> fields,
        issue_key |-> issue_key, updated |-> ToDatetime(updated),
        internal |-> internal, submitted |-> submitted, lock |-> lock,
        design |-> design]
  ELSE ValidationError("ProFormaForm")

\* the status of a new-API form, had it been read off the presence of the key
NewApiStatus_KeyPresent(data) ==
  IF "submitted" \in Keys(data) THEN PyStr("s") ELSE PyStr("o")

\* the status of a new-API form: "s" if data.get("submitted", False) else "o"
NewApiStatus(data) ==
  IF Truthy(DictGet(data, "submitted", PyBool(FALSE))) THEN PyStr("s") ELSE PyStr("o")

\* from_api_response, is_new_api=True, had it read the description of the payload
FromNewApi_KeepsDescription(data, issue_key) ==
  LET state == ProFormaFormState(NewApiStatus(data), PyNone, PyNone, PyNone) IN
  ProFormaForm(DictGet(data, "id", PyStr("")),
               DictGet(data, "id", PyStr("")),
               DictGetOrNone(data, "name"),
               DictGetOrNone(data, "description"),
               state,
               PyList(<<>>),
               issue_key,
               DictGetOrNone(data, "updated"),
               DictGetOrNone(data, "internal"),
               DictGetOrNone(data, "submitted"),
               DictGetOrNone(data, "lock"),
               DictGetOrNone(data, "design"))

\* from_api_response, is_new_api=True
FromNewApi(data, issue_key) ==
  LET state == ProFormaFormState(NewApiStatus(data), PyNone, PyNone, PyNone) IN
  ProFormaForm(DictGet(data, "id", PyStr("")),
               DictGet(data, "id", PyStr("")),
               DictGetOrNone(data, "name"),
               PyNone,
               state,
               PyList(<<>>),
               issue_key,
               DictGetOrNone(data, "updated"),
               DictGetOrNone(data, "internal"),
               DictGetOrNone(data, "submitted"),
               DictGetOrNone(data, "lock"),
               DictGetOrNone(data, "design"))

\* the form_id of a legacy form, had it been the id as in the new API
LegacyFormId_IdOnly(data) == DictGet(data, "id", PyStr(""))

\* the form_id of a legacy form: data.get("formId", data.get("id", ""))
LegacyFormId(data) == DictGet(data, "formId", DictGet(data, "id", PyStr("")))

\* from_api_response, is_new_api=False
FromLegacyApi(data, issue_key) ==
  LET state == StateFromApiResponse(DictGet(data, "state", EmptyDict)) IN
  IF state.kind = "thrown" THEN state
  ELSE LET fields == FieldsFromApiResponse(DictGet(data, "fields", PyList(<<>>))) IN
       IF fields.kind = "thrown" THEN fields
       ELSE ProFormaForm(DictGet(data, "id", PyStr("")),
                         LegacyFormId(data),
                         DictGetOrNone(data, "name"),
                         DictGetOrNone(data, "description"),
                         state,
                         fields,
                         issue_key,
                         PyNone, PyNone, PyNone, PyNone, PyNone)

\* ProFormaForm.from_api_response(data, issue_key=..., is_new_api=...):
\* a ProFormaForm, or the exception it raises
FromApiResponse(data, issue_key, is_new_api) ==
  IF data.kind /= "dict" THEN NoGetError(data)
  ELSE IF is_new_api THEN FromNewApi(data, issue_key)
  ELSE FromLegacyApi(data, issue_key)

\* is_open, had it taken every form that is not submitted for open
IsOpen_NotSubmitted(form) == form.state.status /= PyStr("s")

\* ProFormaForm.is_open
IsOpen(form) == form.state.status = PyStr("o")

\* ProFormaForm.is_submitted
IsSubmitted(form) == form.state.status = PyStr("s")

(***************************************************************************)
(* Raw payloads of the two API generations.                                *)
(***************************************************************************)
FormIssueKeys == {"PROJ-123", "PROJ-456"}

Timestamp == PyStr("2025-01-01T10:00:00Z")

Design == PyDict("layout" :> PyList(<<PyStr("question-1")>>) @@ "conditions" :> EmptyDict)

\* new Forms API: list and detail payloads, any subset of their keys; a record
\* of NewChoices gives each key its value, or Absent
NewChoices ==
     [id : {Absent, PyStr("uuid-1"), PyList(<<>>)},
      name : {Absent, PyStr("Service Request Form")},
      description : {Absent, PyStr("From the payload")},
      submitted : {Absent, PyBool(TRUE), PyBool(FALSE)},
      design : {Absent, Design},
      updated : {Absent, Timestamp, PyStr("yesterday")},
      internal : {Absent, PyBool(FALSE)},
      lock : {Absent, PyBool(TRUE)}]

LegacyStates ==
  {Obj(c) : c \in
     [status : {Absent, PyStr("o"), PyStr("s"), PyStr("x")},
      version : {Absent, PyStr("1.0")}]}
  \cup {PyDict("status" :> PyStr("s") @@ "version" :> PyStr("1.0")
               @@ "submittedAt" :> Timestamp
               @@ "submittedBy" :> PyStr("test-user@example.com"))}

LegacyFields ==
  { EmptyDict,
    PyDict("id" :> PyStr("customfield_10001") @@ "name" :> PyStr("Text Field")
           @@ "type" :> PyStr("select") @@ "value" :> PyStr("Sample text value")
           @@ "required" :> PyBool(TRUE) @@ "readOnly" :> PyBool(TRUE)),
    PyDict("id" :> PyStr("customfield_10003") @@ "value" :> PyBool(FALSE)) }

\* legacy entity-properties API payloads, any subset of their keys
LegacyChoices ==
     [id : {Absent, PyStr("form_12345")},
      formId : {Absent, PyStr("i12345")},
      name : {Absent, PyStr("Service Request Form")},
      description : {Absent, PyStr("Form for service requests")},
      state : {Absent} \cup LegacyStates,
      fields : {Absent} \cup {PyList(f) : f \in SeqsUpTo(LegacyFields, MaxFields)}]

(***************************************************************************)
(* The Forms API client (jira/forms_api.py).                               *)
(***************************************************************************)
\* longest list of forms in a response
MaxForms == 2

CloudId == "d30daf5c-29ad-4817-bd10-bdd85ae8455f"

\* the cloud_id keyword of the constructor: left out, or given
CloudIds == {CloudId, "11111111-2222-3333-4444-555555555555"}

FormsApiBase(cloud_id) == "https://api.atlassian.com/jira/forms/cloud/" \o cloud_id

\* __init__: the two attributes of the adapter
NewAdapter(cloud_id) ==
  [cloud_id |-> cloud_id, forms_api_base |-> FormsApiBase(cloud_id)]

FormIds == {"uuid-1", "uuid-2"}

TemplateIds == {"template-1"}

Answer ==
  PyDict("questionId" :> PyStr("q1") @@ "type" :> PyStr("TEXT") @@ "value" :> PyStr("yes"))

\* an answer without questionId and type
PartialAnswer == PyDict("value" :> PyStr("yes"))

AnswerLists == {PyList(<<>>), PyList(<<Answer>>), PyList(<<Answer, PartialAnswer>>)}

\* endpoints
IssueFormsEndpoint(issue_key) == "/issue/" \o issue_key \o "/form"
FormEndpoint(issue_key, form_id) == "/issue/" \o issue_key \o "/form/" \o form_id
AttachmentEndpoint(issue_key, form_id) == FormEndpoint(issue_key, form_id) \o "/attachment"
ExportEndpoint(issue_key, form_id, format) ==
  FormEndpoint(issue_key, form_id) \o "/format/" \o format

\* the request of _make_forms_api_request, and the one of the two exports
FormsRequest(method, endpoint, data) ==
  [method |-> method, url |-> config.forms_api_base \o endpoint, json |-> data, timeout |-> 30]
ExportRequest(endpoint) ==
  [method |-> "GET", url |-> config.forms_api_base \o endpoint, json |-> PyNone, timeout |-> 60]

\* elements of a form list: two that normalize, one whose id is not a string,
\* one that is not an object
OpenElement ==
  PyDict("id" :> PyStr("uuid-1") @@ "name" :> PyStr("Service Request Form")
         @@ "submitted" :> PyBool(FALSE) @@ "updated" :> Timestamp)
SubmittedElement ==
  PyDict("id" :> PyStr("uuid-2") @@ "submitted" :> PyBool(TRUE) @@ "lock" :> PyBool(TRUE))
IllTypedElement == PyDict("id" :> PyList(<<>>) @@ "name" :> PyStr("Broken"))
NonObjectElement == PyStr("uuid-3")

FormElements == {OpenElement, SubmittedElement, IllTypedElement, NonObjectElement}

FormLists == {PyList(f) : f \in SeqsUpTo(FormElements, MaxForms)}

\* the detail of a form: the list keys and the design
FormDetail == DictSet(OpenElement, "design", Design)

FormObjects == {EmptyDict, OpenElement, SubmittedElement, IllTypedElement, FormDetail}

AttachmentList ==
  PyList(<<PyDict("id" :> PyStr("att-1") @@ "name" :> PyStr("scan.png"))>>)

\* a response without content
EmptyBody == [kind |-> "empty"]

FormsBodies ==
  FormLists \cup FormObjects \cup {AttachmentList, PyNone, PyStr("ok")}
  \cup {EmptyBody, Unparsable}

\* what requests.request / requests.get gives back
FormsNetworkOutcomes ==
  {[kind |-> "response", status_code |-> c, body |-> b] :
     c \in StatusCodes, b \in FormsBodies}
  \cup {[kind |-> "exception", text |-> "Connection refused"]}

\* str(e) of the HTTPError of raise_for_status for a request to url
HTTPErrorAt(status, url) ==
  ToString(status)
    \o (IF status < 500 THEN " Client Error" ELSE " Server Error")
    \o " for url: " \o url

\* the class of the authorization error: an exception of its own, neither a
\* ValueError nor an error of the transport
AuthenticationError == "MCPAtlassianAuthenticationError"

\* exception classes that an "except ValueError" clause catches: json's and
\* requests' JSONDecodeError and pydantic's ValidationError derive from ValueError
IsValueError(type) == type \in {"ValueError", "JSONDecodeError", "ValidationError"}

\* _make_forms_api_request, had it no clause of its own for 404
MakeFormsApiRequest_NotFoundGeneric(endpoint, net) ==
  IF net.kind = "exception" THEN Thrown("ConnectionError", net.text, 0)
  ELSE IF RaisesForStatus(net.status_code)
  THEN IF net.status_code = 403
       THEN Thrown(AuthenticationError,
                   "Insufficient permissions for Forms API: " \o endpoint, 403)
       ELSE Thrown("Exception",
                   "HTTP error in Forms API: "
                     \o HTTPErrorAt(net.status_code, config.forms_api_base \o endpoint),
                   net.status_code)
  ELSE IF net.body = EmptyBody THEN EmptyDict
  ELSE IF JsonRaises(net.body) THEN Thrown("JSONDecodeError", "Expecting value", 0)
  ELSE net.body

\* _make_forms_api_request, had it parsed a response without content
MakeFormsApiRequest_ParsesEmpty(endpoint, net) ==
  IF net.kind = "exception" THEN Thrown("ConnectionError", net.text, 0)
  ELSE IF RaisesForStatus(net.status_code)
  THEN IF net.status_code = 403
       THEN Thrown(AuthenticationError,
                   "Insufficient permissions for Forms API: " \o endpoint, 403)
       ELSE IF net.status_code = 404
       THEN Thrown("ValueError", "Resource not found: " \o endpoint, 404)
       ELSE Thrown("Exception",
                   "HTTP error in Forms API: "
                     \o HTTPErrorAt(net.status_code, config.forms_api_base \o endpoint),
                   net.status_code)
  ELSE IF net.body = EmptyBody \/ JsonRaises(net.body)
  THEN Thrown("JSONDecodeError", "Expecting value", 0)
  ELSE net.body

\* _make_forms_api_request: the parsed body, or the exception it raises
MakeFormsApiRequest(endpoint, net) ==
  IF net.kind = "exception" THEN Thrown("ConnectionError", net.text, 0)
  ELSE IF RaisesForStatus(net.status_code)
  THEN IF net.status_code = 403
       THEN Thrown(AuthenticationError,
                   "Insufficient permissions for Forms API: " \o endpoint, 403)
       ELSE IF net.status_code = 404
       THEN Thrown("ValueError", "Resource not found: " \o endpoint, 404)
       ELSE Thrown("Exception",
                   "HTTP error in Forms API: "
                     \o HTTPErrorAt(net.status_code, config.forms_api_base \o endpoint),
                   net.status_code)
  ELSE IF net.body = EmptyBody THEN EmptyDict
  ELSE IF JsonRaises(net.body) THEN Thrown("JSONDecodeError", "Expecting value", 0)
  ELSE net.body

\* "except Exception: log; raise" of an operation
Reraise(e) == Raise(e.type, e.text)

\* the loop, had it stopped at the first element that fails
ParsedForms_StopAtFailure(items, issue_key) ==
  LET made == [i \in 1..Len(items) |-> FromApiResponse(items[i], PyStr(issue_key), TRUE)]
      bad == {i \in 1..Len(made) : made[i].kind = "thrown"}
  IN IF bad = {} THEN made
     ELSE SubSeq(made, 1, (CHOOSE i \in bad : \A j \in bad : i <= j) - 1)

\* the loop of get_issue_forms: the forms of the elements that normalize, in order
ParsedForms(items, issue_key) ==
  LET made == [i \in 1..Len(items) |-> FromApiResponse(items[i], PyStr(issue_key), TRUE)]
  IN SelectSeq(made, LAMBDA form : form.kind /= "thrown")

GetIssueFormsResult(a, net) ==
  LET parsed == MakeFormsApiRequest(IssueFormsEndpoint(a.issue_key), net) IN
  IF parsed.kind = "thrown"
  THEN IF IsValueError(parsed.type) THEN Return(PyList(<<>>)) ELSE Reraise(parsed)
  ELSE IF parsed.kind /= "list" THEN Return(PyList(<<>>))
  ELSE Return(PyList(ParsedForms(parsed.items, a.issue_key)))

\* get_form_details, had it not passed issue_key on to the normalizer
GetFormDetailsResult_NoIssueKey(a, net) ==
  LET parsed == MakeFormsApiRequest(FormEndpoint(a.issue_key, a.form_id), net) IN
  IF parsed.kind = "thrown"
  THEN IF IsValueError(parsed.type) THEN Return(PyNone) ELSE Reraise(parsed)
  ELSE IF parsed.kind /= "dict" THEN Return(PyNone)
  ELSE LET form == FromApiResponse(parsed, PyNone, TRUE) IN
       IF form.kind /= "thrown" THEN Return(form)
       ELSE IF IsValueError(form.type) THEN Return(PyNone)
       ELSE Reraise(form)

GetFormDetailsResult(a, net) ==
  LET parsed == MakeFormsApiRequest(FormEndpoint(a.issue_key, a.form_id), net) IN
  IF parsed.kind = "thrown"
  THEN IF IsValueError(parsed.type) THEN Return(PyNone) ELSE Reraise(parsed)
  ELSE IF parsed.kind /= "dict" THEN Return(PyNone)
  ELSE LET form == FromApiResponse(parsed, PyStr(a.issue_key), TRUE) IN
       IF form.kind /= "thrown" THEN Return(form)
       ELSE IF IsValueError(form.type) THEN Return(PyNone)
       ELSE Reraise(form)

UpdateFormAnswersResult(a, net) ==
  LET parsed == MakeFormsApiRequest(FormEndpoint(a.issue_key, a.form_id), net) IN
  IF parsed.kind = "thrown" THEN Reraise(parsed) ELSE Return(parsed)

AddFormTemplateResult(a, net) ==
  LET parsed == MakeFormsApiRequest(IssueFormsEndpoint(a.issue_key), net) IN
  IF parsed.kind = "thrown" THEN Reraise(parsed) ELSE Return(parsed)

\* delete_form, had it taken a form that is not there for deleted
DeleteFormResult_SwallowsNotFound(a, net) ==
  LET parsed == MakeFormsApiRequest(FormEndpoint(a.issue_key, a.form_id), net) IN
  IF parsed.kind = "thrown"
  THEN IF IsValueError(parsed.type) THEN Return(PyNone) ELSE Reraise(parsed)
  ELSE Return(PyNone)

DeleteFormResult(a, net) ==
  LET parsed == MakeFormsApiRequest(FormEndpoint(a.issue_key, a.form_id), net) IN
  IF parsed.kind = "thrown" THEN Reraise(parsed) ELSE Return(PyNone)

GetFormAttachmentsResult(a, net) ==
  LET parsed == MakeFormsApiRequest(AttachmentEndpoint(a.issue_key, a.form_id), net) IN
  IF parsed.kind = "thrown"
  THEN IF IsValueError(parsed.type) THEN Return(PyList(<<>>)) ELSE Reraise(parsed)
  ELSE IF parsed.kind /= "list" THEN Return(PyList(<<>>))
  ELSE Return(parsed)

\* response.content
PyBytes(body) == [kind |-> "bytes", content |-> body]

\* export_form_pdf and export_form_xlsx: requests.get, raise_for_status, content
ExportFormResult(a, format, net) ==
  IF net.kind = "exception" THEN Raise("ConnectionError", net.text)
  ELSE IF RaisesForStatus(net.status_code)
  THEN Raise("HTTPError",
             HTTPErrorAt(net.status_code,
                         config.forms_api_base \o ExportEndpoint(a.issue_key, a.form_id, format)))
  ELSE Return(PyBytes(net.body))

FormsOperations ==
  {"get_issue_forms", "get_form_details", "update_form_answers", "add_form_template",
   "delete_form", "get_form_attachments", "export_form_pdf", "export_form_xlsx"}

\* the outcome of the operation a once its request has come back with net
FormsResult(a, net) ==
  CASE a.kind = "get_issue_forms" -> GetIssueFormsResult(a, net)
    [] a.kind = "get_form_details" -> GetFormDetailsResult(a, net)
    [] a.kind = "update_form_answers" -> UpdateFormAnswersResult(a, net)
    [] a.kind = "add_form_template" -> AddFormTemplateResult(a, net)
    [] a.kind = "delete_form" -> DeleteFormResult(a, net)
    [] a.kind = "get_form_attachments" -> GetFormAttachmentsResult(a, net)
    [] a.kind = "export_form_pdf" -> ExportFormResult(a, "pdf", net)
    [] a.kind = "export_form_xlsx" -> ExportFormResult(a, "xlsx", net)

(***************************************************************************)
(* The state machine.                                                      *)
(***************************************************************************)
Init ==
  /\ pc = "idle"
  /\ args = NoArgs
  /\ requests = <<>>
  /\ response = NoResponse
  /\ outcome = NoOutcome
  /\ config \in {NewAdapter(cloud_id) : cloud_id \in CloudIds}

\* rank_issues, from its entry up to and including the POST
RankIssues(issues, rank_before, rank_after, rank_custom_field_id) ==
  LET a == Args(issues, rank_before, rank_after, rank_custom_field_id) IN
  /\ pc = "idle"
  /\ args' = a
  /\ response' = NoResponse
  /\ UNCHANGED config
  /\ IF IssuesMissing(issues)
     THEN /\ outcome' = Raise("ValueError", "At least one issue key must be provided")
          /\ requests' = <<>>
          /\ pc' = "done"
     ELSE IF AnchorsInvalid(rank_before, rank_after)
     THEN /\ outcome' = Raise("ValueError",
                              "Exactly one of rank_before or rank_after must be provided")
          /\ requests' = <<>>
          /\ pc' = "done"
     ELSE /\ outcome' = NoOutcome
          /\ requests' = <<[method |-> "POST", url |-> RankUrl, json |-> Payload(a)]>>
          /\ pc' = "sent"

\* rank_issues, from the return of the POST to its own return or raise
PostReturns(net) ==
  /\ pc = "sent"
  /\ args.kind = "rank_issues"
  /\ response' = net
  /\ outcome' = ExceptClauses(TryBody(args, net))
  /\ pc' = "done"
  /\ UNCHANGED <<args, requests, config>>

\* the caller takes the outcome; the adapter keeps nothing of the call
Finish ==
  /\ pc = "done"
  /\ pc' = "idle"
  /\ args' = NoArgs
  /\ requests' = <<>>
  /\ response' = NoResponse
  /\ outcome' = NoOutcome
  /\ UNCHANGED config

\* a direct call of ProFormaForm.from_api_response
Normalize(data, issue_key, is_new_api) ==
  LET made == FromApiResponse(data, PyStr(issue_key), is_new_api) IN
  /\ pc = "idle"
  /\ args' = [kind |-> "from_api_response", data |-> data,
              issue_key |-> PyStr(issue_key), is_new_api |-> is_new_api]
  /\ requests' = <<>>
  /\ response' = NoResponse
  /\ outcome' = IF made.kind = "thrown" THEN Raise(made.type, made.text)
                ELSE Return(made)
  /\ pc' = "done"
  /\ UNCHANGED config

\* an operation of the Forms API client goes up to its blocking HTTP call
Sends(a, request) ==
  /\ args' = a
  /\ requests' = <<request>>
  /\ pc' = "sent"
  /\ UNCHANGED <<response, outcome, config>>

GetIssueForms(issue_key) ==
  /\ pc = "idle"
  /\ Sends([kind |-> "get_issue_forms", issue_key |-> issue_key],
          FormsRequest("GET", IssueFormsEndpoint(issue_key), PyNone))

GetFormDetails(issue_key, form_id) ==
  /\ pc = "idle"
  /\ Sends([kind |-> "get_form_details", issue_key |-> issue_key, form_id |-> form_id],
          FormsRequest("GET", FormEndpoint(issue_key, form_id), PyNone))

\* update_form_answers, had it refused answers without a questionId
UpdateFormAnswers_Validating(issue_key, form_id, answers) ==
  /\ pc = "idle"
  /\ IF \E i \in 1..Len(answers.items) : "questionId" \notin Keys(answers.items[i])
     THEN /\ args' = [kind |-> "update_form_answers", issue_key |-> issue_key,
                      form_id |-> form_id, answers |-> answers]
          /\ requests' = <<>>
          /\ outcome' = Raise("ValueError", "answer without questionId")
          /\ pc' = "done"
          /\ UNCHANGED <<response, config>>
     ELSE Sends([kind |-> "update_form_answers", issue_key |-> issue_key,
                 form_id |-> form_id, answers |-> answers],
                FormsRequest("PUT", FormEndpoint(issue_key, form_id),
                             PyDict("answers" :> answers)))

UpdateFormAnswers(issue_key, form_id, answers) ==
  /\ pc = "idle"
  /\ Sends([kind |-> "update_form_answers", issue_key |-> issue_key, form_id |-> form_id,
           answers |-> answers],
          FormsRequest("PUT", FormEndpoint(issue_key, form_id),
                       PyDict("answers" :> answers)))

AddFormTemplate(issue_key, template_id) ==
  /\ pc = "idle"
  /\ Sends([kind |-> "add_form_template", issue_key |-> issue_key,
           template_id |-> template_id],
          FormsRequest("POST", IssueFormsEndpoint(issue_key),
                       PyDict("formTemplateId" :> PyStr(template_id))))

DeleteForm(issue_key, form_id) ==
  /\ pc = "idle"
  /\ Sends([kind |-> "delete_form", issue_key |-> issue_key, form_id |-> form_id],
          FormsRequest("DELETE", FormEndpoint(issue_key, form_id), PyNone))

GetFormAttachments(issue_key, form_id) ==
  /\ pc = "idle"
  /\ Sends([kind |-> "get_form_attachments", issue_key |-> issue_key, form_id |-> form_id],
          FormsRequest("GET", AttachmentEndpoint(issue_key, form_id), PyNone))

ExportFormPdf(issue_key, form_id) ==
  /\ pc = "idle"
  /\ Sends([kind |-> "export_form_pdf", issue_key |-> issue_key, form_id |-> form_id],
          ExportRequest(ExportEndpoint(issue_key, form_id, "pdf")))

ExportFormXlsx(issue_key, form_id) ==
  /\ pc = "idle"
  /\ Sends([kind |-> "export_form_xlsx", issue_key |-> issue_key, form_id |-> form_id],
          ExportRequest(ExportEndpoint(issue_key, form_id, "xlsx")))

\* the HTTP call of a Forms operation comes back, had the client sent a failed
\* request once more
FormsRequestReturns_Retry(net) ==
  /\ pc = "sent"
  /\ args.kind \in FormsOperations
  /\ response' = net
  /\ IF Len(requests) < 2
        /\ (net.kind = "exception" \/ RaisesForStatus(net.status_code))
     THEN /\ requests' = Append(requests, requests[1])
          /\ UNCHANGED <<pc, args, outcome, config>>
     ELSE /\ outcome' = FormsResult(args, net)
          /\ pc' = "done"
          /\ UNCHANGED <<args, requests, config>>

\* the HTTP call of a Forms operation comes back, had the adapter switched to
\* another base URL after a failed request
FormsRequestReturns_SwitchesBase(net) ==
  /\ pc = "sent"
  /\ args.kind \in FormsOperations
  /\ response' = net
  /\ outcome' = FormsResult(args, net)
  /\ pc' = "done"
  /\ config' = IF net.kind = "exception" \/ RaisesForStatus(net.status_code)
               THEN [config EXCEPT !.forms_api_base = FormsApiBase("fallback")]
               ELSE config
  /\ UNCHANGED <<args, requests>>

\* the HTTP call of a Forms operation comes back and the operation runs to its end
FormsRequestReturns(net) ==
  /\ pc = "sent"
  /\ args.kind \in FormsOperations
  /\ response' = net
  /\ outcome' = FormsResult(args, net)
  /\ pc' = "done"
  /\ UNCHANGED <<args, requests, config>>

\* a caller starts a call only when none is in progress: the inputs are
\* enumerated in the idle state only
Next ==
  \/ /\ pc = "idle"
     /\ \E c \in NewChoices, issue_key \in FormIssueKeys, is_new_api \in BOOLEAN :
          Normalize(Obj(c), issue_key, is_new_api)
  \/ /\ pc = "idle"
     /\ \E c \in LegacyChoices, issue_key \in FormIssueKeys, is_new_api \in BOOLEAN :
          Normalize(Obj(c), issue_key, is_new_api)
  \/ /\ pc = "idle"
     /\ \E issues \in IssueLists, rank_before \in BeforeValues,
           rank_after \in AfterValues, rank_custom_field_id \in CustomFieldValues :
          RankIssues(issues, rank_before, rank_after, rank_custom_field_id)
  \/ \E net \in NetworkOutcomes : PostReturns(net)
  \/ \E issue_key \in FormIssueKeys : GetIssueForms(issue_key)
  \/ \E issue_key \in FormIssueKeys, form_id \in FormIds :
       GetFormDetails(issue_key, form_id)
  \/ \E issue_key \in FormIssueKeys, form_id \in FormIds, answers \in AnswerLists :
       UpdateFormAnswers(issue_key, form_id, answers)
  \/ \E issue_key \in FormIssueKeys, template_id \in TemplateIds :
       AddFormTemplate(issue_key, template_id)
  \/ \E issue_key \in FormIssueKeys, form_id \in FormIds : DeleteForm(issue_key, form_id)
  \/ \E issue_key \in FormIssueKeys, form_id \in FormIds :
       GetFormAttachments(issue_key, form_id)
  \/ \E issue_key \in FormIssueKeys, form_id \in FormIds : ExportFormPdf(issue_key, form_id)
  \/ \E issue_key \in FormIssueKeys, form_id \in FormIds : ExportFormXlsx(issue_key, form_id)
  \/ \E net \in FormsNetworkOutcomes : FormsRequestReturns(net)
  \/ Finish

Spec == Init /\ [][Next]_vars

(***************************************************************************)
(* Helpers of the properties.                                              *)
(***************************************************************************)
StartsWith(s, prefix) ==
  Len(s) >= Len(prefix) /\ SubSeq(s, 1, Len(prefix)) = prefix

EndsWith(s, suffix) ==
  Len(s) >= Len(suffix) /\ SubSeq(s, Len(s) - Len(suffix) + 1, Len(s)) = suffix

Contains(s, part) ==
  \E i \in 1..(Len(s) - Len(part) + 1) : SubSeq(s, i, i + Len(part) - 1) = part

\* a call of rank_issues is in progress or over
Ranking == pc /= "idle" /\ args.kind = "rank_issues"

\* the call of rank_issues is over
Done == pc = "done" /\ args.kind = "rank_issues"

\* the call passed both precondition checks: its POST went out
Posted == Ranking /\ requests /= <<>>

\* the call is over and the POST came back with a response of this status
Answered(status) ==
  Done /\ response.kind = "response" /\ response.status_code = status

Supplied(v) == v /= PyNone

EmptyIssuesError == Raise("ValueError", "At least one issue key must be provided")

AnchorError ==
  Raise("ValueError", "Exactly one of rank_before or rank_after must be provided")

(***************************************************************************)
(* C1: rank_issues called with an empty issues list always fails with      *)
(* ValueError 'At least one issue key must be provided' and makes no       *)
(* network call, whatever anchors and custom field id are supplied.        *)
(***************************************************************************)
C1_EmptyIssuesRejected ==
  (Ranking /\ args.issues = PyList(<<>>)) =>
    /\ pc = "done"
    /\ outcome = EmptyIssuesError
    /\ requests = <<>>
    /\ response = NoResponse

\* an empty list with both anchors and a custom field id given: the first
\* check is the one that answers
C1_Witness ==
  /\ Done
  /\ args.issues = PyList(<<>>)
  /\ args.rank_before = PyStr("X")
  /\ args.rank_after = PyStr("Y")
  /\ args.rank_custom_field_id = PyStr("customfield_10019")
  /\ outcome = EmptyIssuesError

(***************************************************************************)
(* C2: rank_issues called with a non-empty issues list and with both       *)
(* rank_before and rank_after supplied, or with neither, always fails with *)
(* ValueError 'Exactly one of rank_before or rank_after must be provided'  *)
(* and makes no network call.                                              *)
(***************************************************************************)
C2_AnchorsRejected ==
  (/\ Ranking
   /\ args.issues /= PyList(<<>>)
   /\ Supplied(args.rank_before) = Supplied(args.rank_after)) =>
    /\ pc = "done"
    /\ outcome = AnchorError
    /\ requests = <<>>
    /\ response = NoResponse

C2_Witness ==
  /\ Done
  /\ args.issues = PyList(<<PyStr("A"), PyStr("B")>>)
  /\ args.rank_before = PyStr("X")
  /\ args.rank_after = PyStr("Y")
  /\ outcome = AnchorError
  /\ requests = <<>>

(***************************************************************************)
(* C3: whenever rank_issues passes its precondition checks, the body of    *)
(* the POST holds `issues` equal to the input list, exactly one of the     *)
(* keys rankBeforeIssue / rankAfterIssue carrying the supplied anchor,     *)
(* rankCustomFieldId if and only if a custom field id was provided, and no *)
(* other key.  (A custom field id counts as provided when it is a          *)
(* non-empty string.)  The code builds the payload by truthiness, so a     *)
(* supplied anchor that is the empty string passes the checks and is then  *)
(* left out of the payload: the statement fails.                           *)
(***************************************************************************)
C3_PayloadShape ==
  Posted =>
    LET p == requests[1].json IN
    /\ Len(requests) = 1
    /\ Keys(p) \subseteq {"issues", "rankBeforeIssue", "rankAfterIssue", "rankCustomFieldId"}
    /\ "issues" \in Keys(p) /\ p.fields["issues"] = args.issues
    /\ Supplied(args.rank_before) =>
         /\ "rankBeforeIssue" \in Keys(p)
         /\ p.fields["rankBeforeIssue"] = args.rank_before
         /\ "rankAfterIssue" \notin Keys(p)
    /\ Supplied(args.rank_after) =>
         /\ "rankAfterIssue" \in Keys(p)
         /\ p.fields["rankAfterIssue"] = args.rank_after
         /\ "rankBeforeIssue" \notin Keys(p)
    /\ "rankCustomFieldId" \in Keys(p) <=> Truthy(args.rank_custom_field_id)
    /\ "rankCustomFieldId" \in Keys(p) =>
         p.fields["rankCustomFieldId"] = args.rank_custom_field_id

(***************************************************************************)
(* C4: given a 204 response, rank_issues returns success true, `issues`    *)
(* equal to the input list, and rank_position 'before X' when              *)
(* rank_before=X was supplied and 'after Y' when rank_after=Y was          *)
(* supplied.  With rank_before supplied as the empty string the code       *)
(* answers 'after None' (the truthiness test of C3): the statement fails.  *)
(***************************************************************************)
C4_FullSuccessResult ==
  Answered(204) =>
    /\ outcome.kind = "return"
    /\ outcome.value.kind = "dict"
    /\ {"success", "issues", "rank_position"} \subseteq Keys(outcome.value)
    /\ outcome.value.fields["success"] = PyBool(TRUE)
    /\ outcome.value.fields["issues"] = args.issues
    /\ Supplied(args.rank_before) =>
         outcome.value.fields["rank_position"] = PyStr("before " \o args.rank_before.s)
    /\ Supplied(args.rank_after) =>
         outcome.value.fields["rank_position"] = PyStr("after " \o args.rank_after.s)

(***************************************************************************)
(* C5: given a 207 response whose body parses as JSON, the result has      *)
(* success=false, partial_success=true, rank_position naming the supplied  *)
(* anchor, and a message containing 'N issues ranked, M issues failed',    *)
(* N and M the lengths of the body's successfulIssues and failedIssues     *)
(* lists (0 for a missing key).  A body that parses to a JSON value that   *)
(* is not an object makes the code raise (C7), and an empty-string         *)
(* rank_before is reported as 'after None' (C3): the statement fails.      *)
(***************************************************************************)
ListOrMissing(body, key) ==
  body.kind = "dict" /\ key \in Keys(body) => body.fields[key].kind = "list"

CountOf(body, key) ==
  IF body.kind = "dict" /\ key \in Keys(body) THEN Len(body.fields[key].items) ELSE 0

C5_MultiStatusParsed ==
  (/\ Answered(207)
   /\ response.body \in JsonValues
   /\ ListOrMissing(response.body, "successfulIssues")
   /\ ListOrMissing(response.body, "failedIssues")) =>
    /\ outcome.kind = "return"
    /\ outcome.value.kind = "dict"
    /\ {"success", "partial_success", "rank_position", "message"} \subseteq Keys(outcome.value)
    /\ outcome.value.fields["success"] = PyBool(FALSE)
    /\ outcome.value.fields["partial_success"] = PyBool(TRUE)
    /\ Supplied(args.rank_before) =>
         outcome.value.fields["rank_position"] = PyStr("before " \o args.rank_before.s)
    /\ Supplied(args.rank_after) =>
         outcome.value.fields["rank_position"] = PyStr("after " \o args.rank_after.s)
    /\ outcome.value.fields["message"].kind = "str"
    /\ Contains(outcome.value.fields["message"].s,
                ToString(CountOf(response.body, "successfulIssues")) \o " issues ranked, "
                  \o ToString(CountOf(response.body, "failedIssues")) \o " issues failed")

(***************************************************************************)
(* C6: given a 207 response whose body fails to parse as JSON, rank_issues *)
(* raises nothing and returns exactly {success: false, message: 'Received  *)
(* 207 Multi-Status but could not parse JSON response', status_code: 207}. *)
(***************************************************************************)
C6_MultiStatusUnparsable ==
  (Answered(207) /\ response.body = Unparsable) =>
    outcome = Return(PyDict(
      "success" :> PyBool(FALSE)
      @@ "message" :> PyStr("Received 207 Multi-Status but could not parse JSON response")
      @@ "status_code" :> PyInt(207)))

C6_Witness ==
  /\ Answered(207)
  /\ response.body = Unparsable
  /\ outcome.kind = "return"
  /\ Keys(outcome.value) = {"success", "message", "status_code"}

(***************************************************************************)
(* C7: a 207 response is never turned into an exception: whatever its body *)
(* (a JSON object, a JSON value that is not an object, an object whose     *)
(* successfulIssues or failedIssues is not a list, an unparsable body),    *)
(* rank_issues returns a result and raises no error.  The code catches     *)
(* only ValueError inside the 207 branch, so the TypeError of writing a    *)
(* key into a non-object, or of len() of a value without a length, leaves  *)
(* the branch and is raised as ValueError: the statement fails.            *)
(***************************************************************************)
C7_MultiStatusNeverRaises ==
  Answered(207) => outcome.kind = "return"

(***************************************************************************)
(* C8: for every response whose status is outside 200-299 (1xx and 3xx as  *)
(* well as 4xx and 5xx), rank_issues raises and returns no result.         *)
(* raise_for_status raises for 400-599 only, so a 1xx or 3xx response      *)
(* falls through to the branch of the other statuses and is returned as a  *)
(* result (success: true when the body is not JSON): the statement fails.  *)
(***************************************************************************)
C8_NonSuccessRaises ==
  (/\ Done
   /\ response.kind = "response"
   /\ ~(200 <= response.status_code /\ response.status_code <= 299)) =>
    outcome.kind = "raise"

(***************************************************************************)
(* C9: once the precondition checks pass, every failure of rank_issues (an *)
(* HTTP error status, or an exception while sending the request or         *)
(* handling the response) reaches the caller as a ValueError whose message *)
(* begins 'Failed to rank issues'; the message carries the invalid-data    *)
(* suffix exactly for status 400, the permission suffix exactly for 403,   *)
(* the endpoint-unavailable suffix exactly for 404, and none otherwise.    *)
(***************************************************************************)
InvalidDataSuffix == " - This may be due to invalid issue keys or rank position"
PermissionSuffix == " - You may not have permission to rank issues"
EndpointSuffix == " - The rank endpoint may not be available in your Jira instance"

\* the status the failure came with; 0 when the transport raised
FailureStatus == IF response.kind = "response" THEN response.status_code ELSE 0

C9_FailuresAreValueErrors ==
  (Done /\ requests /= <<>>) =>
    /\ (\/ response.kind = "exception"
        \/ response.kind = "response" /\ response.status_code >= 400) =>
         outcome.kind = "raise"
    /\ outcome.kind = "raise" =>
         /\ outcome.type = "ValueError"
         /\ StartsWith(outcome.message, "Failed to rank issues")
         /\ EndsWith(outcome.message, InvalidDataSuffix) <=> FailureStatus = 400
         /\ EndsWith(outcome.message, PermissionSuffix) <=> FailureStatus = 403
         /\ EndsWith(outcome.message, EndpointSuffix) <=> FailureStatus = 404

C9_Witness ==
  /\ Answered(403)
  /\ outcome.kind = "raise"
  /\ EndsWith(outcome.message, PermissionSuffix)

(***************************************************************************)
(* C10: for a successful response whose status is neither 204 nor 207: if  *)
(* the body parses as JSON, rank_issues returns the parsed body unchanged; *)
(* otherwise it returns {success: true, message, status_code} with         *)
(* status_code equal to the response's status.                             *)
(***************************************************************************)
C10_OtherSuccess ==
  (/\ Done
   /\ response.kind = "response"
   /\ 200 <= response.status_code /\ response.status_code <= 299
   /\ response.status_code \notin {204, 207}) =>
    IF response.body \in JsonValues
    THEN outcome = Return(response.body)
    ELSE /\ outcome.kind = "return"
         /\ outcome.value.kind = "dict"
         /\ Keys(outcome.value) = {"success", "message", "status_code"}
         /\ outcome.value.fields["success"] = PyBool(TRUE)
         /\ outcome.value.fields["message"].kind = "str"
         /\ outcome.value.fields["status_code"] = PyInt(response.status_code)

\* a 201 whose body is not JSON
C10_Witness ==
  /\ Answered(201)
  /\ response.body = Unparsable
  /\ outcome.kind = "return"
  /\ outcome.value.fields["status_code"] = PyInt(201)

(***************************************************************************)
(* Helpers of the properties of the Forms API client.                      *)
(***************************************************************************)
\* the call of this Forms operation is over
FormsDone(op) == pc = "done" /\ args.kind = op

\* the request came back with a response of this status
Responded(status) == response.kind = "response" /\ response.status_code = status

EmptyList == PyList(<<>>)

(***************************************************************************)
(* C11: get_issue_forms on a 404 response returns the empty list and       *)
(* raises nothing, and get_form_attachments on a 404 response returns the  *)
(* empty list and raises nothing.                                          *)
(***************************************************************************)
C11_NotFoundIsEmptyList ==
  (/\ FormsDone("get_issue_forms") \/ FormsDone("get_form_attachments")
   /\ Responded(404)) =>
    outcome = Return(EmptyList)

\* the attachment endpoint answers 404 with a body, and the caller gets []
C11_Witness ==
  /\ FormsDone("get_form_attachments")
  /\ Responded(404)
  /\ response.body = PyStr("ok")
  /\ outcome = Return(EmptyList)

(***************************************************************************)
(* C12: get_form_details on a 404 response returns None and raises         *)
(* nothing; on a 2xx response carrying a JSON object (one that the         *)
(* normalizer accepts) it returns the Form normalized from that object,    *)
(* with the requested issue_key.                                           *)
(***************************************************************************)
Success == response.kind = "response"
           /\ 200 <= response.status_code /\ response.status_code <= 299

\* the form that the new-API normalizer makes of the response body
FormOfBody == FromApiResponse(response.body, PyStr(args.issue_key), TRUE)

FormOfElement(element) == FromApiResponse(element, PyStr(args.issue_key), TRUE)

\* positions of the elements of the response that normalize
WellFormed ==
  {i \in 1..Len(response.body.items) :
     FormOfElement(response.body.items[i]).kind = "ProFormaForm"}

C13_ListingSkipsMalformed ==
  (FormsDone("get_issue_forms") /\ Success /\ response.body.kind = "list") =>
    /\ outcome.kind = "return"
    /\ outcome.value.kind = "list"
    /\ Len(outcome.value.items) = Cardinality(WellFormed)
    /\ \E at \in [1..Len(outcome.value.items) -> 1..Len(response.body.items)] :
         /\ \A j, k \in DOMAIN at : j < k => at[j] < at[k]
         /\ {at[j] : j \in DOMAIN at} = WellFormed
         /\ \A j \in DOMAIN at :
              outcome.value.items[j] = FormOfElement(response.body.items[at[j]])

\* a malformed entry followed by a well-formed one: one Form, the second entry's
C13_Witness ==
  /\ FormsDone("get_issue_forms")
  /\ Responded(200)
  /\ response.body = PyList(<<NonObjectElement, SubmittedElement>>)
  /\ outcome.kind = "return"
  /\ Len(outcome.value.items) = 1
  /\ outcome.value.items[1].id = PyStr("uuid-2")

(***************************************************************************)
(* C14: for every Forms operation (list forms, get form, update answers,   *)
(* add template, delete form, list attachments, export PDF, export XLSX),  *)
(* an HTTP 403 response is surfaced to the caller as                       *)
(* MCPAtlassianAuthenticationError, never as a generic transport error and *)
(* never as an empty or absent result.                                     *)
(***************************************************************************)
C14_ForbiddenIsAuthenticationError ==
  (pc = "done" /\ args.kind \in FormsOperations /\ Responded(403)) =>
    /\ outcome.kind = "raise"
    /\ outcome.type = AuthenticationError

(***************************************************************************)
(* Helpers of the properties of the form model.                            *)
(***************************************************************************)
\* a call of ProFormaForm.from_api_response is over
Normalized == pc = "done" /\ args.kind = "from_api_response"

\* ... and it returned a form
NormalizedForm == Normalized /\ outcome.kind = "return"

HasKey(key) == key \in Keys(args.data)

(***************************************************************************)
(* C15: for every new-API payload with submitted=true the normalized form  *)
(* has is_submitted() true and is_open() false, and for every new-API      *)
(* payload with submitted=false, or with no submitted key, it has          *)
(* is_open() true and is_submitted() false.                                *)
(***************************************************************************)
C15_SubmittedFlagDecidesStatus ==
  (NormalizedForm /\ args.is_new_api) =>
    IF HasKey("submitted") /\ args.data.fields["submitted"] = PyBool(TRUE)
    THEN IsSubmitted(outcome.value) /\ ~IsOpen(outcome.value)
    ELSE IsOpen(outcome.value) /\ ~IsSubmitted(outcome.value)

\* a payload with submitted=false normalizes to an open form
C15_Witness ==
  /\ NormalizedForm
  /\ args.is_new_api
  /\ HasKey("submitted")
  /\ args.data.fields["submitted"] = PyBool(FALSE)
  /\ IsOpen(outcome.value)
  /\ outcome.value.submitted = PyBool(FALSE)

(***************************************************************************)
(* C16: for every legacy-API payload that lacks a formId key, the          *)
(* normalized form_id equals the normalized id; when formId is present,    *)
(* form_id equals formId while id keeps the payload's id.                  *)
(***************************************************************************)
C16_LegacyIdentifiers ==
  (NormalizedForm /\ ~args.is_new_api) =>
    IF HasKey("formId")
    THEN /\ outcome.value.form_id = args.data.fields["formId"]
         /\ HasKey("id") => outcome.value.id = args.data.fields["id"]
    ELSE outcome.value.form_id = outcome.value.id

\* a legacy payload with both identifiers
C16_Witness ==
  /\ NormalizedForm
  /\ ~args.is_new_api
  /\ HasKey("formId") /\ HasKey("id")
  /\ outcome.value.form_id = PyStr("i12345")
  /\ outcome.value.id = PyStr("form_12345")

(***************************************************************************)
(* C17: for every Form, is_open() is true exactly when state.status is     *)
(* 'o' and is_submitted() is true exactly when state.status is 's'; the    *)
(* two are never both true.                                                *)
(***************************************************************************)
\* the forms that the call has returned, alone or in a list
ReturnedForms ==
  IF outcome.kind /= "return" THEN {}
  ELSE IF outcome.value.kind = "ProFormaForm" THEN {outcome.value}
  ELSE IF outcome.value.kind = "list"
  THEN {outcome.value.items[i] : i \in
          {j \in 1..Len(outcome.value.items) :
             outcome.value.items[j].kind = "ProFormaForm"}}
  ELSE {}

C17_OpenAndSubmittedFollowStatus ==
  \A form \in ReturnedForms :
    /\ IsOpen(form) <=> form.state.status.s = "o"
    /\ IsSubmitted(form) <=> form.state.status.s = "s"
    /\ ~(IsOpen(form) /\ IsSubmitted(form))

\* a legacy form whose status is neither of the two is neither open nor submitted
C17_Witness ==
  /\ NormalizedForm
  /\ outcome.value.state.status = PyStr("x")
  /\ ~IsOpen(outcome.value)
  /\ ~IsSubmitted(outcome.value)

(***************************************************************************)
(* C18: normalization never raises on missing optional keys: for a         *)
(* JSON-object payload of either API generation with any subset of its     *)
(* optional keys absent, ProFormaForm.from_api_response returns a Form in  *)
(* which each absent key's field is None, the empty list or false, and     *)
(* for legacy payloads without a state object or a status the status is    *)
(* open.                                                                   *)
(***************************************************************************)
\* a key that is present with a value of the wrong type: an id that is not a
\* string, or (read by the new-API branch only) an updated that is no timestamp
IllTyped ==
  \/ HasKey("id") /\ ~ValidStr(args.data.fields["id"])
  \/ args.is_new_api /\ HasKey("updated")
       /\ ~ValidOptDatetime(args.data.fields["updated"])

\* keys that the branch reads into a field of the same kind, with default None
NoneKeys ==
  IF args.is_new_api
  THEN {"name", "updated", "internal", "submitted", "lock", "design"}
  ELSE {"name", "description"}

\* the state object of a legacy payload, {} if it has none
StateData == DictGet(args.data, "state", EmptyDict)

\* the raw fields of a legacy payload, none if it has no fields key
FieldsData == DictGet(args.data, "fields", EmptyList).items

C18_AbsentKeysDefault ==
  (Normalized /\ ~IllTyped) =>
    /\ outcome.kind = "return"
    /\ outcome.value.kind = "ProFormaForm"
    /\ \A key \in NoneKeys : ~HasKey(key) => outcome.value[key] = PyNone
    /\ args.is_new_api =>
         /\ ~HasKey("submitted") => IsOpen(outcome.value)
         /\ outcome.value.fields = EmptyList
    /\ ~args.is_new_api =>
         /\ ~HasKey("fields") => outcome.value.fields = EmptyList
         /\ "status" \notin Keys(StateData) => IsOpen(outcome.value)
         /\ "version" \notin Keys(StateData) => outcome.value.state.version = PyNone
         /\ "submittedAt" \notin Keys(StateData) =>
              outcome.value.state.submitted_at = PyNone
         /\ "submittedBy" \notin Keys(StateData) =>
              outcome.value.state.submitted_by = PyNone
         /\ Len(outcome.value.fields.items) = Len(FieldsData)
         /\ \A i \in 1..Len(FieldsData) :
              LET raw == FieldsData[i]
                  field == outcome.value.fields.items[i]
              IN /\ "value" \notin Keys(raw) => field.value = PyNone
                 /\ "required" \notin Keys(raw) => field.required = PyBool(FALSE)
                 /\ "readOnly" \notin Keys(raw) => field.read_only = PyBool(FALSE)

\* the legacy payload {"fields": [{}]}: no state, and a field without any key
C18_Witness ==
  /\ Normalized
  /\ ~args.is_new_api
  /\ args.data = PyDict("fields" :> PyList(<<EmptyDict>>))
  /\ outcome.kind = "return"
  /\ IsOpen(outcome.value)
  /\ outcome.value.name = PyNone
  /\ outcome.value.fields.items[1].required = PyBool(FALSE)

(***************************************************************************)
(* C19: when a single form detail is requested and the successful          *)
(* response payload is JSON but not a JSON object (for example a list),    *)
(* get_form_details raises a validation error rather than returning a      *)
(* Form or None.                                                           *)
(***************************************************************************)
\* the body is JSON, and not an object
NonObjectBody == response.body.kind \in {"list", "None", "str", "int", "bool"}

C19_NonObjectDetailRaises ==
  (FormsDone("get_form_details") /\ Success /\ NonObjectBody) =>
    /\ outcome.kind = "raise"
    /\ outcome.type \in {"ValidationError", "ValueError", "TypeError"}

(***************************************************************************)
(* C20: no operation retries: every invocation of rank_issues or of a      *)
(* Forms operation issues at most one HTTP request, and after a failed     *)
(* request (error status or network exception) the same invocation         *)
(* surfaces the failure without issuing a second request.                  *)
(***************************************************************************)
\* the request that is coming back in this step has failed
Failing ==
  \/ response'.kind = "exception"
  \/ response'.kind = "response" /\ RaisesForStatus(response'.status_code)

\* a failure that the operation reports as "nothing there" instead of raising:
\* 404 for the two lists and the detail
NotFoundResult ==
  /\ response'.kind = "response" /\ response'.status_code = 404
  /\ \/ args.kind \in {"get_issue_forms", "get_form_attachments"}
          /\ outcome' = Return(EmptyList)
     \/ args.kind = "get_form_details" /\ outcome' = Return(PyNone)

NoRetry ==
  /\ Len(requests') <= 1
  /\ pc = "sent" =>
       /\ pc' = "done"
       /\ requests' = requests
       /\ outcome'.kind \in {"return", "raise"}
       /\ Failing => outcome'.kind = "raise" \/ NotFoundResult

C20_NoRetries == [][NoRetry]_vars

\* a PUT that came back with 500: one request, and the call has raised
C20_Witness ==
  /\ FormsDone("update_form_answers")
  /\ Responded(500)
  /\ Len(requests) = 1
  /\ requests[1].method = "PUT"
  /\ outcome.kind = "raise"

(***************************************************************************)
(* C21: delete_form on a successful response with an empty body completes  *)
(* normally (returns nothing, raises nothing); more generally a JSON Forms *)
(* operation whose successful response has an empty body yields an empty   *)
(* object instead of a parse failure.                                      *)
(***************************************************************************)
\* the operations that go through _make_forms_api_request
JsonOperations == FormsOperations \ {"export_form_pdf", "export_form_xlsx"}

C21_EmptyBodyIsEmptyObject ==
  (pc = "done" /\ args.kind \in JsonOperations /\ Success /\ response.body = EmptyBody) =>
    /\ outcome.kind = "return"
    /\ args.kind = "delete_form" => outcome.value = PyNone
    /\ args.kind \in {"update_form_answers", "add_form_template"} =>
         outcome.value = EmptyDict
    /\ outcome = FormsResult(args, [response EXCEPT !.body = EmptyDict])

\* a DELETE answered 204 without content
C21_Witness ==
  /\ FormsDone("delete_form")
  /\ Responded(204)
  /\ response.body = EmptyBody
  /\ requests[1].method = "DELETE"
  /\ outcome = Return(PyNone)

(***************************************************************************)
(* C22: update_form_answers performs no local validation: for any answers  *)
(* list (including an empty list or items lacking questionId/type/value)   *)
(* it issues a PUT to /issue/{issue_key}/form/{form_id} with body          *)
(* {answers: <the input list unchanged>} and returns the response JSON     *)
(* unchanged.                                                              *)
(***************************************************************************)
\* the body of the response is JSON
JsonBody == response.body \notin {EmptyBody, Unparsable}

C22_AnswersPassThrough ==
  (pc /= "idle" /\ args.kind = "update_form_answers") =>
    /\ Len(requests) = 1
    /\ requests[1].method = "PUT"
    /\ requests[1].url =
         config.forms_api_base \o "/issue/" \o args.issue_key \o "/form/" \o args.form_id
    /\ requests[1].json = PyDict("answers" :> args.answers)
    /\ (pc = "done" /\ Success /\ JsonBody) => outcome = Return(response.body)

\* answers with an item that has only a value: sent as they are, response returned
C22_Witness ==
  /\ FormsDone("update_form_answers")
  /\ args.answers = PyList(<<Answer, PartialAnswer>>)
  /\ requests[1].json.fields["answers"] = PyList(<<Answer, PartialAnswer>>)
  /\ Responded(200)
  /\ response.body = OpenElement
  /\ outcome = Return(OpenElement)

(***************************************************************************)
(* C23: for every payload normalized as new-API: fields is the empty list, *)
(* form_id equals id, description is None even when the payload has a      *)
(* description key, and design is the payload's design document stored     *)
(* unchanged (None when absent).                                           *)
(***************************************************************************)
C23_NewApiShape ==
  (NormalizedForm /\ args.is_new_api) =>
    /\ outcome.value.fields = EmptyList
    /\ outcome.value.form_id = outcome.value.id
    /\ outcome.value.description = PyNone
    /\ outcome.value.design =
         (IF HasKey("design") THEN args.data.fields["design"] ELSE PyNone)

\* a payload with a description and a design
C23_Witness ==
  /\ NormalizedForm
  /\ args.is_new_api
  /\ HasKey("description")
  /\ HasKey("design")
  /\ outcome.value.id = PyStr("uuid-1")
  /\ outcome.value.form_id = PyStr("uuid-1")
  /\ outcome.value.description = PyNone
  /\ outcome.value.design = Design

(***************************************************************************)
(* C24: for every payload normalized as legacy-API, fields are mapped 1:1  *)
(* from the raw field list: the normalized list has the same length and    *)
(* order as the raw list, each field keeps its id, name, type and value,   *)
(* and required / read_only are false whenever the raw field omits them.   *)
(***************************************************************************)
\* the value of a raw key in the normalized field: kept when the raw field has
\* the key
Kept(raw, key, value) == key \in Keys(raw) => value = raw.fields[key]

C24_LegacyFieldsOneToOne ==
  (NormalizedForm /\ ~args.is_new_api) =>
    /\ outcome.value.fields.kind = "list"
    /\ Len(outcome.value.fields.items) = Len(FieldsData)
    /\ \A i \in 1..Len(FieldsData) :
         LET raw == FieldsData[i]
             field == outcome.value.fields.items[i]
         IN /\ field.kind = "ProFormaFormField"
            /\ Kept(raw, "id", field.id)
            /\ Kept(raw, "name", field.name)
            /\ Kept(raw, "type", field.type)
            /\ Kept(raw, "value", field.value)
            /\ Kept(raw, "required", field.required)
            /\ Kept(raw, "readOnly", field.read_only)
            /\ "required" \notin Keys(raw) => field.required = PyBool(FALSE)
            /\ "readOnly" \notin Keys(raw) => field.read_only = PyBool(FALSE)

\* two raw fields, the first complete, the second with an id and a value only
C24_Witness ==
  /\ NormalizedForm
  /\ ~args.is_new_api
  /\ Len(FieldsData) = 2
  /\ outcome.value.fields.items[1].id = PyStr("customfield_10001")
  /\ outcome.value.fields.items[1].read_only = PyBool(TRUE)
  /\ outcome.value.fields.items[2].id = PyStr("customfield_10003")
  /\ outcome.value.fields.items[2].value = PyBool(FALSE)
  /\ outcome.value.fields.items[2].required = PyBool(FALSE)

(***************************************************************************)
(* C25: get_issue_forms, get_form_details and get_form_attachments convert *)
(* only an HTTP 404 into the empty / absent result: every other failure (a *)
(* non-404 error status, a network or request exception, or a 2xx response *)
(* whose body cannot be parsed as JSON) is raised to the caller and never  *)
(* returned as an empty list or None.                                      *)
(***************************************************************************)
Readers == {"get_issue_forms", "get_form_details", "get_form_attachments"}

\* the request failed with something other than a 404
ErrorButNotFound ==
  \/ response.kind = "exception"
  \/ /\ response.kind = "response"
     /\ RaisesForStatus(response.status_code)
     /\ response.status_code /= 404

\* a 2xx response whose body is not JSON
UnparsableSuccess == Success /\ response.body = Unparsable

C25_OnlyNotFoundIsEmpty ==
  (pc = "done" /\ args.kind \in Readers /\ (ErrorButNotFound \/ UnparsableSuccess)) =>
    outcome.kind = "raise"

(***************************************************************************)
(* C26: for the mutating Forms operations update_form_answers,             *)
(* add_form_template and delete_form, a 404 response is raised to the      *)
(* caller as an error and never converted into a normal return; whenever   *)
(* the request fails the operation returns no value.                       *)
(***************************************************************************)
Mutators == {"update_form_answers", "add_form_template", "delete_form"}

\* the request failed: an exception of the transport, or an error status
Failed ==
  \/ response.kind = "exception"
  \/ response.kind = "response" /\ RaisesForStatus(response.status_code)

C26_MutatorsRaiseOnFailure ==
  (pc = "done" /\ args.kind \in Mutators /\ Failed) =>
    /\ outcome.kind = "raise"
    /\ Responded(404) =>
         /\ outcome.type = "ValueError"
         /\ StartsWith(outcome.message, "Resource not found: /issue/" \o args.issue_key)

\* deleting a form that is not there
C26_Witness ==
  /\ FormsDone("delete_form")
  /\ Responded(404)
  /\ outcome =
       Raise("ValueError", "Resource not found: /issue/PROJ-123/form/uuid-2")

(***************************************************************************)
(* C27: for a 207 response whose body parses to a JSON object, every key   *)
(* of the body other than success, partial_success, message and            *)
(* rank_position appears in the result of rank_issues with its value       *)
(* unchanged (in particular successfulIssues and failedIssues); only those *)
(* four keys are added or overwritten.                                     *)
(***************************************************************************)
AnnotationKeys == {"success", "partial_success", "message", "rank_position"}

\* the result is the body but for the four keys of the annotation
FrameOfBody ==
  /\ outcome.value.kind = "dict"
  /\ Keys(outcome.value) = Keys(response.body) \cup AnnotationKeys
  /\ \A key \in Keys(response.body) \ AnnotationKeys :
       outcome.value.fields[key] = response.body.fields[key]

C27_MultiStatusFrame ==
  (Answered(207) /\ response.body.kind = "dict") =>
    /\ outcome.kind = "return"
    /\ FrameOfBody

(***************************************************************************)
(* C28: in every 204 result and every parsed-207 result of rank_issues,    *)
(* rank_position agrees with the request that was sent: it is 'before X'   *)
(* exactly when the payload carried rankBeforeIssue = X and 'after Y'      *)
(* exactly when the payload carried rankAfterIssue = Y; the result never   *)
(* names a direction or anchor key that was not in the payload.            *)
(***************************************************************************)
\* the call returned a result that carries a rank_position
PositionReported ==
  /\ Answered(204) \/ Answered(207)
  /\ outcome.kind = "return"
  /\ "rank_position" \in Keys(outcome.value)

\* the payload carries this anchor key and rank_position names its value
Names(direction, key) ==
  /\ key \in Keys(requests[1].json)
  /\ outcome.value.fields["rank_position"] =
       PyStr(direction \o " " \o requests[1].json.fields[key].s)

C28_RankPositionMatchesPayload ==
  PositionReported =>
    \/ Names("before", "rankBeforeIssue")
    \/ Names("after", "rankAfterIssue")

(***************************************************************************)
(* C29: for every form produced by normalization from either API           *)
(* generation, state.status is one of the two values 'o' or 's', so        *)
(* exactly one of is_open() and is_submitted() is true.                    *)
(***************************************************************************)
C29_StatusIsOpenOrSubmitted ==
  \A form \in ReturnedForms :
    /\ form.state.status.s \in {"o", "s"}
    /\ IsOpen(form) /= IsSubmitted(form)

(***************************************************************************)
(* C30: the adapter keeps no state between calls: no operation changes the *)
(* Forms base URL / cloud id fixed at construction, and for any sequence   *)
(* of operations the outcome of each call depends only on its own          *)
(* arguments and on the response to its own request, not on calls made     *)
(* before.                                                                 *)
(***************************************************************************)
\* between two calls nothing is left of the earlier one
NothingLeft ==
  pc = "idle" =>
    /\ args = NoArgs
    /\ requests = <<>>
    /\ response = NoResponse
    /\ outcome = NoOutcome

\* the outcome of the call that is over, computed from its arguments and its
\* response alone
OwnOutcome ==
  CASE args.kind = "rank_issues" ->
         IF IssuesMissing(args.issues) THEN EmptyIssuesError
         ELSE IF AnchorsInvalid(args.rank_before, args.rank_after) THEN AnchorError
         ELSE ExceptClauses(TryBody(args, response))
    [] args.kind = "from_api_response" ->
         LET made == FromApiResponse(args.data, args.issue_key, args.is_new_api)
         IN IF made.kind = "thrown" THEN Raise(made.type, made.text) ELSE Return(made)
    [] args.kind \in FormsOperations -> FormsResult(args, response)

\* the adapter is as its constructor left it
AsConstructed ==
  /\ config.cloud_id \in CloudIds
  /\ config = NewAdapter(config.cloud_id)
  /\ (requests /= <<>> /\ args.kind \in FormsOperations) =>
       StartsWith(requests[1].url, FormsApiBase(config.cloud_id) \o "/issue/")

====
